---- MODULE Spec2Model ----
(***************************************************************************)
(* The build configuration of the blog (.eleventy.js): the tagList         *)
(* collection callback, the readTime and formatDate filters and the        *)
(* asset_img / cover_img shortcodes, as the static-site engine calls them. *)
(*                                                                         *)
(* A JavaScript string is a sequence of one-character strings; a           *)
(* JavaScript value that may be absent is a record [type, val].            *)
(***************************************************************************)
EXTENDS Integers, Sequences, FiniteSets, TLC

VARIABLES
    items,       \* collection.getAll(): the content items of the current build
    tagsSet,     \* the Set the tagList callback fills, in insertion order
    result,      \* what the tagList callback returned
    value,       \* the argument of the last readTime call
    textOnly,    \* readTime's local textOnly
    readResult,  \* what readTime returned
    dateValue,   \* the argument of the last formatDate call
    hostOffset,  \* the host's UTC offset in minutes (its time zone)
    dateResult,  \* what formatDate returned
    filename,    \* first argument of the last shortcode call
    alt,         \* second argument of the last shortcode call
    imgResult,   \* what the shortcode returned
    builtBefore, \* the tags the items of this process's earlier builds carried
    registry,    \* the functions registered on eleventyConfig, in call order
    passthrough, \* the patterns handed to addPassthroughCopy, in call order
    inputDir,    \* dir.input of the object the configuration returned
    files,       \* the files of the source tree
    output,      \* the files a build has written
    built,       \* whether a build has written its output
    css,         \* the stylesheet in the CSS pipeline
    cssRan,      \* the pipeline's plugins that have run on it, in order
    called,      \* the registered function the engine called last
    error        \* the error the last call raised, "none" when it returned

\* What loading the configuration, a build's copies and the CSS pipeline act on.
siteVars == <<registry, passthrough, inputDir, files, output, built, css, cssRan>>

vars == <<items, tagsSet, result, value, textOnly, readResult, dateValue,
          hostOffset, dateResult, filename, alt, imgResult, builtBefore,
          called, error, siteVars>>

----------------------------------------------------------------------------
(* Bounds of the model.                                                    *)

MaxItems == 2
MaxTags == 2
MaxTotalTags == 4
MaxMarkup == 3
MaxPlain == 1350
MaxArg == 2
MaxBuildItems == 1
LastYear == 2021

----------------------------------------------------------------------------
(* Strings.                                                                *)

\* The printable ASCII characters in code order, U+0020 to U+007E (the grave
\* accent, which a TLA+ string cannot hold, by its code point).
Ascii ==
    << " ", "!", "\"", "#", "$", "%", "&", "'", "(", ")", "*", "+", ",", "-",
       ".", "/", "0", "1", "2", "3", "4", "5", "6", "7", "8", "9", ":", ";",
       "<", "=", ">", "?", "@", "A", "B", "C", "D", "E", "F", "G", "H", "I",
       "J", "K", "L", "M", "N", "O", "P", "Q", "R", "S", "T", "U", "V", "W",
       "X", "Y", "Z", "[", "\\", "]", "^", "_", "U+0060", "a", "b", "c", "d", "e",
       "f", "g", "h", "i", "j", "k", "l", "m", "n", "o", "p", "q", "r", "s",
       "t", "u", "v", "w", "x", "y", "z", "{", "|", "}", "~" >>

\* The UTF-16 code unit of a character.
CharCode(c) == 31 + CHOOSE i \in 1..Len(Ascii) : Ascii[i] = c

Range(s) == {s[i] : i \in 1..Len(s)}

Max(a, b) == IF a >= b THEN a ELSE b

\* String.prototype.toLowerCase on ASCII: A to Z become a to z.
ToLowerCase(s) ==
    [i \in 1..Len(s) |->
        IF CharCode(s[i]) \in 65..90 THEN Ascii[CharCode(s[i]) + 1] ELSE s[i]]

\* String.prototype.trim on ASCII: the spaces at both ends are dropped.
RECURSIVE Trim(_)
Trim(s) ==
    IF s = <<>> THEN s
    ELSE IF Head(s) = " " THEN Trim(Tail(s))
    ELSE IF s[Len(s)] = " " THEN Trim(SubSeq(s, 1, Len(s) - 1))
    ELSE s

\* An order that ignores letter case, as a comparator on lowercased strings
\* would give.
StrLessIgnoringCase(x, y) ==
    LET lx == ToLowerCase(x)
        ly == ToLowerCase(y)
    IN  \/ \E k \in 1..Len(lx) :
              /\ k <= Len(ly)
              /\ \A j \in 1..(k - 1) : lx[j] = ly[j]
              /\ CharCode(lx[k]) < CharCode(ly[k])
        \/ /\ Len(lx) < Len(ly)
           /\ \A j \in 1..Len(lx) : lx[j] = ly[j]

\* x < y on strings: the first differing code unit decides, a proper prefix
\* is smaller.
StrLess(x, y) ==
    \/ \E k \in 1..Len(x) :
          /\ k <= Len(y)
          /\ \A j \in 1..(k - 1) : x[j] = y[j]
          /\ CharCode(x[k]) < CharCode(y[k])
    \/ /\ Len(x) < Len(y)
       /\ \A j \in 1..Len(x) : x[j] = y[j]

----------------------------------------------------------------------------
(* JavaScript values.                                                      *)

Undefined == [type |-> "undefined", val |-> <<>>]
Null == [type |-> "null", val |-> <<>>]
Str(chars) == [type |-> "string", val |-> chars]
Array(elems) == [type |-> "array", val |-> elems]

\* ToBoolean: undefined, null and the empty string are falsy; every array
\* and every other string is truthy.
Truthy(v) ==
    \/ v.type = "array"
    \/ v.type = "string" /\ v.val # <<>>

Returned(v) == [error |-> "none", val |-> v]
Thrown(e) == [error |-> e, val |-> <<>>]

----------------------------------------------------------------------------
(* Content items.                                                          *)

\* An item as the callback reads it: item.data.tags.
Item(tags) == [data |-> [tags |-> tags]]

SeqsUpTo(S, n) == UNION {[1..k -> S] : k \in 0..n}

\* The tags the generated collections draw from.
TagUniverse ==
    { <<"a">>, <<"b">>, <<"c">>, <<"p", "o", "s", "t", "s">>, <<"a", "l", "l">> }

\* An item with a tag list of at most MaxTags tags, or with no tags at all.
ItemShapes ==
    {Item(Undefined)} \cup {Item(Array(t)) : t \in SeqsUpTo(TagUniverse, MaxTags)}

NumTags(item) == Len(item.data.tags.val)

RECURSIVE TotalTags(_)
TotalTags(coll) ==
    IF coll = <<>> THEN 0 ELSE NumTags(Head(coll)) + TotalTags(Tail(coll))

\* The tag lists of the specification's worked example.
ExampleCollection ==
    << Item(Array(<< <<"a">>, <<"p", "o", "s", "t", "s">> >>)),
       Item(Array(<< <<"b">>, <<"a", "l", "l">> >>)),
       Item(Array(<< <<"a">>, <<"c">> >>)) >>

\* The front matter of the repository's posts.
SitePosts ==
    << Item(Array(<< <<"e", "l", "i", "x", "i", "r">> >>)),
       Item(Array(<< <<"e", "l", "i", "x", "i", "r">>, <<"a", "s", "t">>,
                     <<"m", "a", "c", "r", "o", "s">> >>)),
       Item(Array(<< <<"e", "l", "i", "x", "i", "r">>, <<"a", "s", "t">>,
                     <<"m", "a", "c", "r", "o", "s">> >>)),
       Item(Array(<< <<"e", "l", "i", "x", "i", "r">>, <<"a", "s", "t">>,
                     <<"s", "o", "u", "r", "c", "e", "r", "o", "r">>,
                     <<"r", "e", "f", "a", "c", "t", "o", "r", "i", "n", "g">> >>)),
       Item(Array(<< <<"n", "o", "n", "e">>, <<"u", "n", "l", "i", "s", "t", "e", "d">> >>)) >>

----------------------------------------------------------------------------
(* The tagList collection callback.                                        *)

\* ["posts", "all"]
ReservedTags == << <<"p", "o", "s", "t", "s">>, <<"a", "l", "l">> >>

\* Array.prototype.includes
Includes(arr, x) == \E i \in 1..Len(arr) : arr[i] = x

\* A filter that forgets the second reserved tag.
KeepTagButPosts(tag) == tag # ReservedTags[1]

\* A filter that compares the tag trimmed and in lower case.
KeepTagNormalised(tag) == ~Includes(ReservedTags, ToLowerCase(Trim(tag)))

\* (tag) => !["posts", "all"].includes(tag)
KeepTag(tag) == ~Includes(ReservedTags, tag)

\* item.data.tags.filter(...)
FilterTags(tags) == SelectSeq(tags, KeepTag)

\* A filter that removes the rejected elements from the array it is called on.
FilterInPlace(tags) == SelectSeq(tags, KeepTag)

\* The array .filter was called on, after the call: .filter builds a new
\* array and leaves its receiver as it was.
ReceiverAfterFilter(tags) == tags

\* An add that appends whether or not the value is there, as a list would.
SetAddAlways(set, x) == Append(set, x)

\* Set.prototype.add: a value already in the set keeps its place.
SetAdd(set, x) == IF Includes(set, x) THEN set ELSE Append(set, x)

\* A loop that adds the first tag only.
AddFirst(set, tags) == IF tags = <<>> THEN set ELSE SetAdd(set, Head(tags))

\* .forEach((tag) => tagsSet.add(tag))
RECURSIVE AddEach(_, _)
AddEach(set, tags) ==
    IF tags = <<>> THEN set
    ELSE AddEach(SetAdd(set, Head(tags)), Tail(tags))

\* A callback without the guard on absent tags.
VisitItemUnguarded(set, item) ==
    IF item.data.tags.type = "array"
    THEN Returned(AddEach(set, FilterTags(item.data.tags.val)))
    ELSE Thrown("TypeError")

\* The forEach callback on one item: the Set after it, or the TypeError of
\* calling .filter on a value that has none.
VisitItem(set, item) ==
    IF ~Truthy(item.data.tags) THEN Returned(set)
    ELSE IF item.data.tags.type = "array"
         THEN Returned(AddEach(set, FilterTags(item.data.tags.val)))
         ELSE Thrown("TypeError")

\* collection.getAll().forEach(...): the first error ends the loop.
RECURSIVE VisitAll(_, _)
VisitAll(set, coll) ==
    IF coll = <<>> THEN Returned(set)
    ELSE LET r == VisitItem(set, Head(coll))
         IN  IF r.error # "none" THEN r ELSE VisitAll(r.val, Tail(coll))

\* A Set created once, outside the callback, and filled by every call.
SharedTagsSet(old) == old

\* const tagsSet = new Set(): whatever an earlier call built is not in it.
NewTagsSet(old) == <<>>

\* Array.prototype.sort without a comparator, by insertion: the elements as
\* strings, ascending by code units.
RECURSIVE SortInsert(_, _)
SortInsert(sorted, x) ==
    IF sorted = <<>> THEN <<x>>
    ELSE IF StrLess(x, Head(sorted)) THEN <<x>> \o sorted
         ELSE <<Head(sorted)>> \o SortInsert(Tail(sorted), x)

\* A return without the sort.
Unsorted(arr) == arr

RECURSIVE Sort(_)
Sort(arr) ==
    IF arr = <<>> THEN <<>>
    ELSE SortInsert(Sort(SubSeq(arr, 1, Len(arr) - 1)), arr[Len(arr)])

\* An item after the callback visited it: nothing but .filter acted on it.
ItemAfterVisit(item) ==
    IF item.data.tags.type = "array"
    THEN Item(Array(ReceiverAfterFilter(item.data.tags.val)))
    ELSE item

\* The items of the collection after the call.
ItemsAfter(coll) == [i \in 1..Len(coll) |-> ItemAfterVisit(coll[i])]

\* The callback: the Set it filled and what it returned.
TagList(old, coll) ==
    LET r == VisitAll(NewTagsSet(old), coll)
    IN  IF r.error # "none"
        THEN [error |-> r.error, set |-> <<>>, val |-> <<>>]
        ELSE [error |-> "none", set |-> r.val, val |-> Sort(r.val)]

----------------------------------------------------------------------------
(* Loading the configuration: the calls module.exports makes on            *)
(* eleventyConfig, in order, and what it returns.                          *)

Call(method, arg) == [method |-> method, arg |-> arg]

\* A configuration that registers readTime twice and formatDate not at all.
ConfigCallsReadTimeTwice ==
    << Call("addFilter", <<"readTime">>),
       Call("addFilter", <<"readTime">>),
       Call("addCollection", <<"tagList">>),
       Call("addLiquidShortcode", <<"asset_img">>),
       Call("addLiquidShortcode", <<"cover_img">>),
       Call("addLiquidFilter", <<"dateToRfc3339">>) >>

ConfigCalls ==
    << Call("addPlugin", <<"syntaxHighlight">>),
       Call("setDataDeepMerge", <<"true">>),
       Call("addPassthroughCopy", <<"src", "assets", "**", "*">>),
       Call("addPassthroughCopy", <<"src", "manifest.json">>),
       Call("addPassthroughCopy", <<"src", "resume", "assets">>),
       Call("setFrontMatterParsingOptions", <<"excerpt">>),
       Call("addFilter", <<"readTime">>),
       Call("addFilter", <<"formatDate">>),
       Call("addCollection", <<"tagList">>),
       Call("setLibrary", <<"md">>),
       Call("addLiquidShortcode", <<"asset_img">>),
       Call("addLiquidShortcode", <<"cover_img">>),
       Call("addLiquidFilter", <<"dateToRfc3339">>),
       Call("addPlugin", <<"pluginRss">>) >>

\* The methods that register a function under a name.
RegisteringMethods ==
    {"addFilter", "addCollection", "addLiquidShortcode", "addLiquidFilter"}

IsRegistration(call) == call.method \in RegisteringMethods

IsPassthrough(call) == call.method = "addPassthroughCopy"

Registration(call) == [kind |-> call.method, name |-> call.arg[1]]

\* eleventyConfig after the calls: each registering call adds one entry.
RegistryAfter(calls) ==
    LET regs == SelectSeq(calls, IsRegistration)
    IN  [i \in 1..Len(regs) |-> Registration(regs[i])]

PassthroughAfter(calls) ==
    LET copies == SelectSeq(calls, IsPassthrough)
    IN  [i \in 1..Len(copies) |-> copies[i].arg]

\* return { dir: { input: "src" } }
ReturnedInputDir == "src"

\* The engine can call what the configuration registered.
IsRegistered(kind, name) ==
    \E i \in 1..Len(registry) : registry[i] = [kind |-> kind, name |-> name]

NotLoaded ==
    /\ registry = <<>>
    /\ passthrough = <<>>
    /\ inputDir = ""

ConfigLoaded ==
    /\ registry = RegistryAfter(ConfigCalls)
    /\ passthrough = PassthroughAfter(ConfigCalls)
    /\ inputDir = ReturnedInputDir

\* No source tree looked at and nothing written.
NothingCopied ==
    /\ files = {}
    /\ output = {}
    /\ built = FALSE

NoStylesheet == [lang |-> "none", nodes |-> <<>>, compressed |-> FALSE,
                 minified |-> FALSE]

PipelineIdle ==
    /\ css = NoStylesheet
    /\ cssRan = <<>>

SiteIdle == NothingCopied /\ PipelineIdle

----------------------------------------------------------------------------
(* The engine calling the callback on the items of a build.                *)

NoString == <<>>

\* No registered function has been called.
NothingCalled ==
    /\ tagsSet = <<>>
    /\ result = <<>>
    /\ value = Undefined
    /\ textOnly = NoString
    /\ readResult = 0
    /\ dateValue = Undefined
    /\ hostOffset = 0
    /\ dateResult = NoString
    /\ filename = NoString
    /\ alt = NoString
    /\ imgResult = NoString
    /\ builtBefore = {}
    /\ called = "none"
    /\ error = "none"

Idle == NothingCalled /\ ConfigLoaded /\ SiteIdle

\* A build starts with no item, or with the items of the worked example or
\* of the repository's posts.
InitTagList ==
    /\ items \in {<<>>, ExampleCollection, SitePosts}
    /\ Idle

\* The engine finds one more content item, before it calls the callback.
Discover ==
    /\ called = "none"
    /\ Len(items) < MaxItems
    /\ \E item \in ItemShapes :
          /\ TotalTags(items) + NumTags(item) <= MaxTotalTags
          /\ items' = Append(items, item)
    /\ UNCHANGED <<tagsSet, result, value, textOnly, readResult, dateValue,
                   hostOffset, dateResult, filename, alt, imgResult,
                   builtBefore, called, error,
                   siteVars>>

CallTagList ==
    LET r == TagList(tagsSet, items)
    IN  /\ called' = "tagList"
        /\ error' = r.error
        /\ tagsSet' = r.set
        /\ result' = r.val
        /\ items' = ItemsAfter(items)
        /\ UNCHANGED <<value, textOnly, readResult, dateValue,
                       hostOffset, dateResult, filename, alt, imgResult,
                       builtBefore,
                       siteVars>>

NextTagList == Discover \/ CallTagList

SpecTagList == InitTagList /\ [][NextTagList]_vars

----------------------------------------------------------------------------
(* The tag aggregator's contract.                                          *)

\* Every tag some item of the collection carries.
RECURSIVE CarriedTags(_)
CarriedTags(coll) ==
    IF coll = <<>> THEN {}
    ELSE Range(Head(coll).data.tags.val) \cup CarriedTags(Tail(coll))

HasTags(item) == item.data.tags.type # "undefined"

TagsOf(coll, i) == coll[i].data.tags.val

Posts == <<"p", "o", "s", "t", "s">>
All == <<"a", "l", "l">>

\* C1: whatever the items and their tag lists, the sequence tagList returns
\* contains neither "posts" nor "all".
C1_NoReservedTag ==
    called = "tagList" =>
        \A i \in 1..Len(result) : result[i] # Posts /\ result[i] # All

\* A call on a collection that carries "posts" twice in one list and "all"
\* as well, and still yields a tag.
C1_Witness ==
    /\ called = "tagList"
    /\ \E i \in 1..Len(items) : TagsOf(items, i) = <<Posts, Posts>>
    /\ \E i \in 1..Len(items) : All \in Range(TagsOf(items, i))
    /\ Len(result) > 0

\* C2: the sequence tagList returns is strictly ascending, so it is sorted
\* and holds no tag twice.
C2_SortedNoDuplicates ==
    called = "tagList" =>
        \A i, j \in 1..Len(result) : i < j => StrLess(result[i], result[j])

\* A call where one tag occurs twice in one item and again in another item,
\* and where the tags were met in descending order.
C2_Witness ==
    /\ called = "tagList"
    /\ \E i, j \in 1..Len(items) :
          /\ i # j
          /\ TagsOf(items, i) = << <<"b">>, <<"b">> >>
          /\ TagsOf(items, j) = << <<"b">>, <<"a">> >>
    /\ tagsSet = << <<"b">>, <<"a">> >>
    /\ result = << <<"a">>, <<"b">> >>

\* C3: the elements of the result are the tags some item carries, without
\* "posts" and "all"; the worked example yields a, b, c.
C3_UnionMinusReserved ==
    called = "tagList" =>
        /\ Range(result) = CarriedTags(items) \ {Posts, All}
        /\ items = ExampleCollection => result = << <<"a">>, <<"b">>, <<"c">> >>

C3_Witness ==
    /\ called = "tagList"
    /\ items = ExampleCollection
    /\ result = << <<"a">>, <<"b">>, <<"c">> >>

\* C8: an item without tags does not make tagList fail, and the result is
\* the one for the collection without its tag-less items, which is also the
\* one with an empty tag list in their place.
WithoutTagless(coll) == SelectSeq(coll, HasTags)

EmptyForTagless(coll) ==
    [i \in 1..Len(coll) |-> IF HasTags(coll[i]) THEN coll[i] ELSE Item(Array(<<>>))]

C8_AbsentTagsSkipped ==
    called = "tagList" =>
        /\ error = "none"
        /\ result = TagList(<<>>, WithoutTagless(items)).val
        /\ result = TagList(<<>>, EmptyForTagless(items)).val

\* A call on a collection with a tag-less item before an item with a tag.
C8_Witness ==
    /\ called = "tagList"
    /\ Len(items) = 2
    /\ ~HasTags(items[1])
    /\ HasTags(items[2])
    /\ Len(result) > 0

----------------------------------------------------------------------------
(* The readTime filter.                                                    *)

Min(S) == CHOOSE i \in S : \A j \in S : i <= j

\* The position of the first ">" after position i, 0 when there is none.
NextGt(s, i) ==
    LET after == {j \in (i + 1)..Len(s) : s[j] = ">"}
    IN  IF after = {} THEN 0 ELSE Min(after)

\* /(<([^>]+)>)/ matches at position i: a "<", one or more characters other
\* than ">", and a ">". The match ends at the first ">" after i.
MatchesAt(s, i) ==
    /\ s[i] = "<"
    /\ i + 1 <= Len(s)
    /\ s[i + 1] # ">"
    /\ NextGt(s, i) # 0

\* String.prototype.replace with the global flag and "" as replacement: the
\* leftmost match is cut out and the search resumes after it.
RECURSIVE ReplaceFrom(_, _)
ReplaceFrom(s, from) ==
    LET starts == {i \in from..Len(s) : MatchesAt(s, i)}
    IN  IF starts = {} THEN SubSeq(s, from, Len(s))
        ELSE SubSeq(s, from, Min(starts) - 1)
                 \o ReplaceFrom(s, NextGt(s, Min(starts)) + 1)

\* A pattern whose closing ">" is optional: after the closed tags, a "<"
\* followed by text is cut out with everything up to the end.
StripOpenTags(content) ==
    LET stripped == ReplaceFrom(content, 1)
        open == {i \in 1..(Len(stripped) - 1) :
                    stripped[i] = "<" /\ stripped[i + 1] # ">"}
    IN  IF open = {} THEN stripped
        ELSE SubSeq(stripped, 1, Min(open) - 1)

\* A replace without the global flag: only the leftmost match is cut out.
StripFirstTag(content) ==
    LET starts == {i \in 1..Len(content) : MatchesAt(content, i)}
    IN  IF starts = {} THEN content
        ELSE SubSeq(content, 1, Min(starts) - 1)
                 \o SubSeq(content, NextGt(content, Min(starts)) + 1,
                           Len(content))

\* content.replace(/(<([^>]+)>)/gi, "")
StripTags(content) == ReplaceFrom(content, 1)

ReadingSpeedPerMin == 450

\* A filter that rounds up.
ReadTimeCeil(v) ==
    IF v.type # "string" THEN [error |-> "TypeError", textOnly |-> NoString, val |-> 0]
    ELSE [error |-> "none", textOnly |-> StripTags(v.val),
          val |-> Max(1, (Len(StripTags(v.val)) + ReadingSpeedPerMin - 1)
                             \div ReadingSpeedPerMin)]

\* A filter without the minimum.
ReadTimeUnclamped(v) ==
    IF v.type # "string" THEN [error |-> "TypeError", textOnly |-> NoString, val |-> 0]
    ELSE [error |-> "none", textOnly |-> StripTags(v.val),
          val |-> Len(StripTags(v.val)) \div ReadingSpeedPerMin]

\* The filter: its local textOnly and what it returns. A value without a
\* replace method raises a TypeError.
ReadTime(v) ==
    IF v.type # "string" THEN [error |-> "TypeError", textOnly |-> NoString, val |-> 0]
    ELSE [error |-> "none", textOnly |-> StripTags(v.val),
          val |-> Max(1, Len(StripTags(v.val)) \div ReadingSpeedPerMin)]

\* n characters of running text.
Plain(n) == [i \in 1..n |-> "x"]

\* The lengths of running text the inputs use: every multiple of 50 and the
\* lengths around the multiples of the reading speed.
PlainLengths ==
    {n \in 0..MaxPlain :
        \/ n % 50 = 0
        \/ n % ReadingSpeedPerMin <= 1
        \/ n % ReadingSpeedPerMin >= ReadingSpeedPerMin - (MaxMarkup + 1)}

\* Short pieces of markup and text.
Markups == SeqsUpTo({"<", ">", "x"}, MaxMarkup)

\* The rendered bodies handed to the filter: a piece of markup with a run of
\* text put in at some position.
TextsAround(m) ==
    {SubSeq(m, 1, p) \o Plain(n) \o SubSeq(m, p + 1, Len(m)) :
        p \in 0..Len(m), n \in PlainLengths}

Texts == UNION {TextsAround(m) : m \in Markups}

InitReadTime ==
    /\ items = <<>>
    /\ tagsSet = <<>>
    /\ result = <<>>
    /\ value \in {Str(t) : t \in Texts}
    /\ textOnly = NoString
    /\ readResult = 0
    /\ dateValue = Undefined
    /\ hostOffset = 0
    /\ dateResult = NoString
    /\ filename = NoString
    /\ alt = NoString
    /\ imgResult = NoString
    /\ builtBefore = {}
    /\ called = "none"
    /\ error = "none"
    /\ ConfigLoaded
    /\ SiteIdle

CallReadTime ==
    LET r == ReadTime(value)
    IN  /\ called' = "readTime"
        /\ error' = r.error
        /\ textOnly' = r.textOnly
        /\ readResult' = r.val
        /\ UNCHANGED <<items, tagsSet, result, value, dateValue, hostOffset,
                       dateResult, filename, alt, imgResult,
                       builtBefore,
                       siteVars>>

NextReadTime == CallReadTime

SpecReadTime == InitReadTime /\ [][NextReadTime]_vars

\* C4: readTime returns max(1, floor(N / 450)) for N characters left after
\* the tags are stripped: 1 for every N below 900, 2 for N from 900 to 1349.
C4_ReadTimeFormula ==
    called = "readTime" =>
        LET N == Len(textOnly)
        IN  /\ textOnly = StripTags(value.val)
            /\ \E q \in 0..N :
                  /\ 450 * q <= N
                  /\ N < 450 * (q + 1)
                  /\ readResult = IF q >= 1 THEN q ELSE 1
            /\ N < 900 => readResult = 1
            /\ (N >= 900 /\ N <= 1349) => readResult = 2

\* A call that strips a tag and is left with exactly 900 characters.
C4_Witness ==
    /\ called = "readTime"
    /\ Len(value.val) > 900
    /\ Len(textOnly) = 900
    /\ readResult = 2

\* A string made only of tags: "<", characters other than "<" and ">", ">",
\* any number of times.
RECURSIVE OnlyTags(_)
OnlyTags(s) ==
    \/ s = <<>>
    \/ /\ Len(s) >= 3
       /\ s[1] = "<"
       /\ s[2] \notin {"<", ">"}
       /\ NextGt(s, 1) # 0
       /\ \A k \in 2..(NextGt(s, 1) - 1) : s[k] # "<"
       /\ OnlyTags(SubSeq(s, NextGt(s, 1) + 1, Len(s)))

\* C5: on every string readTime returns an integer of at least 1 and raises
\* nothing; on the empty string and on a string made only of tags it
\* returns 1.
C5_AtLeastOne ==
    called = "readTime" =>
        /\ error = "none"
        /\ readResult \in Nat
        /\ readResult >= 1
        /\ OnlyTags(value.val) => readResult = 1

\* A call on a string that is one long tag, and nothing else.
C5_Witness ==
    /\ called = "readTime"
    /\ Len(value.val) > 1000
    /\ OnlyTags(value.val)
    /\ readResult = 1

----------------------------------------------------------------------------
(* Dates. A time value counts minutes since 1970-01-01T00:00Z: the inputs  *)
(* are whole days and the hosts' UTC offsets whole minutes.                *)

MinutesPerDay == 24 * 60

NaN == [nan |-> TRUE, t |-> 0]
TimeValue(t) == [nan |-> FALSE, t |-> t]

InLeapYear(y) == (y % 4 = 0 /\ y % 100 # 0) \/ y % 400 = 0

\* The day number of January 1 of year y.
DayFromYear(y) ==
    365 * (y - 1970) + ((y - 1969) \div 4) - ((y - 1901) \div 100)
        + ((y - 1601) \div 400)

MonthLengths(y) ==
    <<31, IF InLeapYear(y) THEN 29 ELSE 28, 31, 30, 31, 30, 31, 31, 30, 31, 30, 31>>

\* The days of year y before its month m (1 to 12).
RECURSIVE DaysBeforeMonth(_, _)
DaysBeforeMonth(y, m) ==
    IF m = 1 THEN 0 ELSE DaysBeforeMonth(y, m - 1) + MonthLengths(y)[m - 1]

\* MakeDay: a day of the month past the month's end runs into the next.
MakeDay(y, m, d) == DayFromYear(y) + DaysBeforeMonth(y, m) + d - 1

YearFromDay(day) ==
    CHOOSE y \in 1969..(LastYear + 1) :
        DayFromYear(y) <= day /\ day < DayFromYear(y + 1)

MonthFromDay(day) ==
    LET y == YearFromDay(day)
    IN  CHOOSE m \in 1..12 :
            /\ DayFromYear(y) + DaysBeforeMonth(y, m) <= day
            /\ day < DayFromYear(y) + DaysBeforeMonth(y, m) + MonthLengths(y)[m]

DateFromDay(day) ==
    LET y == YearFromDay(day)
    IN  day - DayFromYear(y) - DaysBeforeMonth(y, MonthFromDay(day)) + 1

IsDigit(c) == c \in {"0", "1", "2", "3", "4", "5", "6", "7", "8", "9"}

DigitValue(c) == CharCode(c) - CharCode("0")

RECURSIVE ParseDigits(_)
ParseDigits(s) ==
    IF s = <<>> THEN 0
    ELSE 10 * ParseDigits(SubSeq(s, 1, Len(s) - 1)) + DigitValue(s[Len(s)])

\* The date-only form YYYY-MM-DD.
IsDateOnly(s) ==
    /\ Len(s) = 10
    /\ s[5] = "-"
    /\ s[8] = "-"
    /\ \A i \in {1, 2, 3, 4, 6, 7, 9, 10} : IsDigit(s[i])

\* Date.parse, on the strings the model hands it: a date-only string is
\* midnight UTC of that day, with a month from 01 to 12 and a day from 01
\* to 31; no other string of the model is a date.
DateParse(s) ==
    IF /\ IsDateOnly(s)
       /\ ParseDigits(SubSeq(s, 6, 7)) \in 1..12
       /\ ParseDigits(SubSeq(s, 9, 10)) \in 1..31
    THEN TimeValue(MinutesPerDay * MakeDay(ParseDigits(SubSeq(s, 1, 4)),
                                          ParseDigits(SubSeq(s, 6, 7)),
                                          ParseDigits(SubSeq(s, 9, 10))))
    ELSE NaN

\* new Date(value)
NewDate(v) ==
    CASE v.type = "string" -> DateParse(v.val)
      [] v.type = "null" -> TimeValue(0)
      [] OTHER -> NaN

MonthNames ==
    << <<"J", "a", "n", "u", "a", "r", "y">>,
       <<"F", "e", "b", "r", "u", "a", "r", "y">>,
       <<"M", "a", "r", "c", "h">>,
       <<"A", "p", "r", "i", "l">>,
       <<"M", "a", "y">>,
       <<"J", "u", "n", "e">>,
       <<"J", "u", "l", "y">>,
       <<"A", "u", "g", "u", "s", "t">>,
       <<"S", "e", "p", "t", "e", "m", "b", "e", "r">>,
       <<"O", "c", "t", "o", "b", "e", "r">>,
       <<"N", "o", "v", "e", "m", "b", "e", "r">>,
       <<"D", "e", "c", "e", "m", "b", "e", "r">> >>

DigitChars == <<"0", "1", "2", "3", "4", "5", "6", "7", "8", "9">>

\* A natural number in decimal, without padding.
RECURSIVE Decimal(_)
Decimal(n) ==
    IF n < 10 THEN <<DigitChars[n + 1]>>
    ELSE Decimal(n \div 10) \o <<DigitChars[(n % 10) + 1]>>

InvalidDate == <<"I", "n", "v", "a", "l", "i", "d", " ", "D", "a", "t", "e">>

\* "month day, year" in en-US.
LongDate(y, m, d) == MonthNames[m] \o <<" ">> \o Decimal(d) \o <<",", " ">> \o Decimal(y)

\* A formatter that raises a RangeError on an invalid date, as
\* Intl.DateTimeFormat.prototype.format does.
FormatOrThrow(date, offset) ==
    IF date.nan THEN Thrown("RangeError")
    ELSE LET day == (date.t + offset) \div MinutesPerDay
         IN  Returned(LongDate(YearFromDay(day), MonthFromDay(day), DateFromDay(day)))

\* date.toLocaleDateString("en-US", {year: "numeric", month: "long",
\* day: "numeric"}): the calendar day of the time value in the host's time
\* zone; "Invalid Date" for an invalid date.
ToLocaleDateString(date, offset) ==
    IF date.nan THEN Returned(InvalidDate)
    ELSE LET day == (date.t + offset) \div MinutesPerDay
         IN  Returned(LongDate(YearFromDay(day), MonthFromDay(day), DateFromDay(day)))

\* The filter.
FormatDate(v, offset) == ToLocaleDateString(NewDate(v), offset)

Pad2(n) == IF n < 10 THEN <<"0">> \o Decimal(n) ELSE Decimal(n)

\* YYYY-MM-DD, as the posts' front matter writes dates.
DateString(y, m, d) == Decimal(y) \o <<"-">> \o Pad2(m) \o <<"-">> \o Pad2(d)

Years == 2020..LastYear

CalendarDates ==
    {<<y, m, d>> \in Years \X (1..12) \X (1..31) : d <= MonthLengths(y)[m]}

\* Strings that are no date.
UnparseableStrings ==
    { <<>>,
      <<"n", "o", "t", " ", "a", " ", "d", "a", "t", "e">>,
      <<"2", "0", "2", "1", "-", "1", "3", "-", "0", "1">>,
      <<"2", "0", "2", "1", "-", "0", "4", "-", "3", "2">>,
      <<"2", "0", "2", "1", "-", "0", "0", "-", "1", "6">> }

DateValues ==
    {Str(DateString(c[1], c[2], c[3])) : c \in CalendarDates}
        \cup {Str(u) : u \in UnparseableStrings}
        \cup {Undefined, Null}

\* UTC offsets of hosts, in minutes: UTC-12, UTC-3, UTC, UTC+5:30, UTC+14.
HostOffsets == {-720, -180, 0, 330, 840}

InitFormatDate ==
    /\ items = <<>>
    /\ tagsSet = <<>>
    /\ result = <<>>
    /\ value = Undefined
    /\ textOnly = NoString
    /\ readResult = 0
    /\ dateValue \in DateValues
    /\ hostOffset \in HostOffsets
    /\ dateResult = NoString
    /\ filename = NoString
    /\ alt = NoString
    /\ imgResult = NoString
    /\ builtBefore = {}
    /\ called = "none"
    /\ error = "none"
    /\ ConfigLoaded
    /\ SiteIdle

CallFormatDate ==
    LET r == FormatDate(dateValue, hostOffset)
    IN  /\ called' = "formatDate"
        /\ error' = r.error
        /\ dateResult' = r.val
        /\ UNCHANGED <<items, tagsSet, result, value, textOnly, readResult,
                       dateValue, hostOffset, filename, alt, imgResult,
                       builtBefore,
                       siteVars>>

NextFormatDate == CallFormatDate

SpecFormatDate == InitFormatDate /\ [][NextFormatDate]_vars

\* C6: for a date-only string YYYY-MM-DD formatDate returns the month name,
\* the day and the year of that calendar date; for "2021-04-16" it returns
\* "April 16, 2021".
C6_SameCalendarDate ==
    called = "formatDate" =>
        /\ \A c \in CalendarDates :
              dateValue = Str(DateString(c[1], c[2], c[3]))
                  => dateResult = LongDate(c[1], c[2], c[3])
        /\ dateValue = Str(<<"2", "0", "2", "1", "-", "0", "4", "-", "1", "6">>)
              => dateResult = <<"A", "p", "r", "i", "l", " ", "1", "6", ",", " ",
                                "2", "0", "2", "1">>

\* C7: formatDate raises nothing, and for a value that is no date it
\* returns "Invalid Date".
C7_InvalidDateText ==
    called = "formatDate" =>
        /\ error = "none"
        /\ (dateValue = Undefined \/ dateValue \in {Str(u) : u \in UnparseableStrings})
              => dateResult = InvalidDate

\* A call on a string with a thirteenth month.
C7_Witness ==
    /\ called = "formatDate"
    /\ dateValue = Str(<<"2", "0", "2", "1", "-", "1", "3", "-", "0", "1">>)
    /\ error = "none"
    /\ dateResult = InvalidDate

----------------------------------------------------------------------------
(* The asset_img and cover_img shortcodes.                                 *)

\* `<img src="/assets/img/posts/`
AssetImgOpen ==
    << "<", "i", "m", "g", " ", "s", "r", "c", "=", "\"", "/", "a", "s",
       "s", "e", "t", "s", "/", "i", "m", "g", "/", "p", "o", "s", "t",
       "s", "/" >>

\* `" alt="`
ImgAlt ==
    << "\"", " ", "a", "l", "t", "=", "\"" >>

\* `" />`
AssetImgClose ==
    << "\"", " ", "/", ">" >>

\* `<picture><img class="article__cover" src="/assets/img/posts/`
CoverImgOpen ==
    << "<", "p", "i", "c", "t", "u", "r", "e", ">", "<", "i", "m", "g",
       " ", "c", "l", "a", "s", "s", "=", "\"", "a", "r", "t", "i", "c",
       "l", "e", "_", "_", "c", "o", "v", "e", "r", "\"", " ", "s", "r",
       "c", "=", "\"", "/", "a", "s", "s", "e", "t", "s", "/", "i", "m",
       "g", "/", "p", "o", "s", "t", "s", "/" >>

\* `" /></picture>`
CoverImgClose ==
    << "\"", " ", "/", ">", "<", "/", "p", "i", "c", "t", "u", "r", "e", ">" >>

\* ${...} in a template literal: a string goes in as it is, any other value
\* as its name.
Interpolate(v) ==
    CASE v.type = "string" -> v.val
      [] v.type = "null" -> <<"n", "u", "l", "l">>
      [] OTHER -> <<"u", "n", "d", "e", "f", "i", "n", "e", "d">>

\* A shortcode that takes its arguments in the wrong order.
AssetImgSwapped(f, a) ==
    AssetImgOpen \o Interpolate(a) \o ImgAlt \o Interpolate(f) \o AssetImgClose

\* (filename, alt) => `<img src="/assets/img/posts/${filename}" alt="${alt}" />`
AssetImg(f, a) ==
    AssetImgOpen \o Interpolate(f) \o ImgAlt \o Interpolate(a) \o AssetImgClose

\* A cover that also shows its alt text as a caption after the picture.
CoverImgWithCaption(f, a) ==
    CoverImgOpen \o Interpolate(f) \o ImgAlt \o Interpolate(a) \o CoverImgClose
        \o Interpolate(a)

\* (filename, alt) => `<picture><img class="article__cover" src=... /></picture>`
CoverImg(f, a) ==
    CoverImgOpen \o Interpolate(f) \o ImgAlt \o Interpolate(a) \o CoverImgClose

\* The characters of the generated arguments: a letter, a space and the
\* characters that mean something to HTML.
ArgChars == {"a", " ", "\"", "<", ">"}

\* The covers the posts ask for.
PostCoverFile ==
    << "a", "_", "d", "e", "e", "p", "_", "d", "i", "v", "e", "_", "i",
       "n", "t", "o", "_", "t", "h", "e", "_", "e", "l", "i", "x", "i",
       "r", "_", "a", "s", "t", "_", "c", "o", "v", "e", "r", ".", "p",
       "n", "g" >>

PostCoverAlt ==
    << "i", "e", "x", ">", " ", "q", "u", "o", "t", "e", " ", "d", "o",
       ":", " ", "s", "u", "m", "(", "1", ",", " ", "2", ",", " ", "3",
       ")", ";", " ", "{", ":", "s", "u", "m", ",", " ", "[", "]", ",",
       " ", "[", "1", ",", " ", "2", ",", " ", "3", "]" >>

ListsCoverFile ==
    << "i", "m", "p", "r", "o", "p", "e", "r", "_", "l", "i", "s", "t",
       "s", "_", "c", "o", "v", "e", "r", ".", "p", "n", "g" >>

ListsCoverAlt ==
    << "[", "1", ",", " ", "2", ",", " ", "3", ",", " ", "4", " ", "|",
       " ", "5", "]", ",", " ", "w", "f", "t", "?" >>

ShortcodeArgs ==
    (SeqsUpTo(ArgChars, MaxArg) \X SeqsUpTo(ArgChars, MaxArg))
        \cup {<<PostCoverFile, PostCoverAlt>>, <<ListsCoverFile, ListsCoverAlt>>}

InitShortcodes ==
    /\ items = <<>>
    /\ tagsSet = <<>>
    /\ result = <<>>
    /\ value = Undefined
    /\ textOnly = NoString
    /\ readResult = 0
    /\ dateValue = Undefined
    /\ hostOffset = 0
    /\ dateResult = NoString
    /\ \E args \in ShortcodeArgs : filename = args[1] /\ alt = args[2]
    /\ imgResult = NoString
    /\ builtBefore = {}
    /\ called = "none"
    /\ error = "none"
    /\ ConfigLoaded
    /\ SiteIdle

CallAssetImg ==
    /\ called' = "asset_img"
    /\ error' = "none"
    /\ imgResult' = AssetImg(Str(filename), Str(alt))
    /\ UNCHANGED <<items, tagsSet, result, value, textOnly, readResult,
                   dateValue, hostOffset, dateResult, filename, alt,
                   builtBefore,
                   siteVars>>

CallCoverImg ==
    /\ called' = "cover_img"
    /\ error' = "none"
    /\ imgResult' = CoverImg(Str(filename), Str(alt))
    /\ UNCHANGED <<items, tagsSet, result, value, textOnly, readResult,
                   dateValue, hostOffset, dateResult, filename, alt,
                   builtBefore,
                   siteVars>>

NextShortcodes == CallAssetImg \/ CallCoverImg

SpecShortcodes == InitShortcodes /\ [][NextShortcodes]_vars

\* The number of places where part occurs in s.
Occurrences(s, part) ==
    Cardinality({i \in 1..(Len(s) - Len(part) + 1) :
                    SubSeq(s, i, i + Len(part) - 1) = part})

\* `<img`
ImgTag == <<"<", "i", "m", "g">>

\* ` src="/assets/img/posts/` + filename + `" alt="` + alt + `" />`: what
\* follows the name, or the class, of the img element.
ImgAttributes ==
    << " ", "s", "r", "c", "=", "\"", "/", "a", "s", "s", "e", "t", "s",
       "/", "i", "m", "g", "/", "p", "o", "s", "t", "s", "/" >>
        \o filename \o <<"\"", " ", "a", "l", "t", "=", "\"">> \o alt
        \o <<"\"", " ", "/", ">">>

\* C10: both shortcodes return one img element whose src is
\* "/assets/img/posts/" followed by the file name and whose alt is the alt
\* text, both as they were given; cover_img wraps it in a picture element
\* and gives it the class "article__cover".
C10_ImgMarkup ==
    /\ called = "asset_img" =>
          /\ imgResult = ImgTag \o ImgAttributes
          /\ Occurrences(imgResult, ImgTag) = 1
    /\ called = "cover_img" =>
          /\ imgResult =
                << "<", "p", "i", "c", "t", "u", "r", "e", ">" >>
                    \o ImgTag
                    \o << " ", "c", "l", "a", "s", "s", "=", "\"", "a", "r",
                       "t", "i", "c", "l", "e", "_", "_", "c", "o", "v",
                       "e", "r", "\"" >>
                    \o ImgAttributes
                    \o << "<", "/", "p", "i", "c", "t", "u", "r", "e", ">" >>
          /\ Occurrences(imgResult, ImgTag) = 1

\* A cover_img call whose alt text holds a quote and a ">", as they are.
C10_Witness ==
    /\ called = "cover_img"
    /\ filename = <<"a">>
    /\ alt = <<"\"", ">">>
    /\ Len(imgResult) = Len(CoverImgOpen) + 1 + Len(ImgAlt) + 2 + Len(CoverImgClose)

----------------------------------------------------------------------------
(* The engine at work: builds, each handing the items it found to the      *)
(* tagList callback, and calls of the filters and shortcodes, in any       *)
(* order and any number of times.                                          *)

\* An item without tags, or with one tag.
BuildItemShapes ==
    {Item(Undefined)} \cup {Item(Array(<<t>>)) : t \in {<<"a">>, <<"b">>, Posts}}

BuildCollections == SeqsUpTo(BuildItemShapes, MaxBuildItems)

\* An empty body, a tag and a character, a minute of text.
RenderedBodies == {<<>>, <<"<", "x", ">", "x">>, Plain(ReadingSpeedPerMin)}

PostDates ==
    { Str(<<"2", "0", "2", "1", "-", "0", "4", "-", "1", "6">>),
      Str(<<"n", "o", "t", " ", "a", " ", "d", "a", "t", "e">>) }

InitCalls ==
    /\ items = <<>>
    /\ Idle

Build ==
    \E coll \in BuildCollections :
        LET r == TagList(tagsSet, coll)
        IN  /\ IsRegistered("addCollection", "tagList")
            /\ items' = ItemsAfter(coll)
            /\ builtBefore' = builtBefore \cup CarriedTags(items)
            /\ called' = "tagList"
            /\ error' = r.error
            /\ tagsSet' = r.set
            /\ result' = r.val
            /\ UNCHANGED <<value, textOnly, readResult, dateValue, hostOffset,
                           dateResult, filename, alt, imgResult,
                           siteVars>>

RenderReadTime ==
    \E body \in RenderedBodies :
        LET r == ReadTime(Str(body))
        IN  /\ IsRegistered("addFilter", "readTime")
            /\ value' = Str(body)
            /\ called' = "readTime"
            /\ error' = r.error
            /\ textOnly' = r.textOnly
            /\ readResult' = r.val
            /\ UNCHANGED <<items, tagsSet, result, dateValue, hostOffset,
                           dateResult, filename, alt, imgResult,
                           builtBefore,
                           siteVars>>

RenderFormatDate ==
    \E date \in PostDates :
        LET r == FormatDate(date, hostOffset)
        IN  /\ IsRegistered("addFilter", "formatDate")
            /\ dateValue' = date
            /\ called' = "formatDate"
            /\ error' = r.error
            /\ dateResult' = r.val
            /\ UNCHANGED <<items, tagsSet, result, value, textOnly, readResult,
                           hostOffset, filename, alt, imgResult,
                           builtBefore,
                           siteVars>>

RenderAssetImg ==
    \E args \in {<<PostCoverFile, PostCoverAlt>>, <<ListsCoverFile, ListsCoverAlt>>} :
        /\ IsRegistered("addLiquidShortcode", "asset_img")
        /\ filename' = args[1]
        /\ alt' = args[2]
        /\ called' = "asset_img"
        /\ error' = "none"
        /\ imgResult' = AssetImg(Str(args[1]), Str(args[2]))
        /\ UNCHANGED <<items, tagsSet, result, value, textOnly, readResult,
                       dateValue, hostOffset, dateResult,
                       builtBefore,
                       siteVars>>

RenderCoverImg ==
    \E args \in {<<PostCoverFile, PostCoverAlt>>, <<ListsCoverFile, ListsCoverAlt>>} :
        /\ IsRegistered("addLiquidShortcode", "cover_img")
        /\ filename' = args[1]
        /\ alt' = args[2]
        /\ called' = "cover_img"
        /\ error' = "none"
        /\ imgResult' = CoverImg(Str(args[1]), Str(args[2]))
        /\ UNCHANGED <<items, tagsSet, result, value, textOnly, readResult,
                       dateValue, hostOffset, dateResult,
                       builtBefore,
                       siteVars>>

NextCalls ==
    \/ Build
    \/ RenderReadTime
    \/ RenderFormatDate
    \/ RenderAssetImg
    \/ RenderCoverImg

SpecCalls == InitCalls /\ [][NextCalls]_vars

\* C9: no call leaves anything behind for a later one. The result of a
\* build holds only tags of that build's items, and is the one a first
\* build of these items gives; a filter or shortcode called again with the
\* arguments of its last call, whatever was called in between, returns what
\* it returned then.
C9_NoStateBetweenCalls ==
    [][ /\ called' = "tagList" =>
              /\ Range(result') \subseteq CarriedTags(items')
              /\ Range(result') \cap (builtBefore' \ CarriedTags(items')) = {}
              /\ result' = TagList(<<>>, items').val
        /\ (called' = "readTime" /\ readResult # 0 /\ value' = value)
              => readResult' = readResult
        /\ (called' = "formatDate" /\ dateResult # NoString /\ dateValue' = dateValue)
              => dateResult' = dateResult
        /\ (called' \in {"asset_img", "cover_img"} /\ called' = called
                /\ filename' = filename /\ alt' = alt)
              => imgResult' = imgResult
      ]_vars

\* A build of one item tagged "b", after an earlier build had carried the
\* tag "a" and a filter had run.
C9_Witness ==
    /\ called = "tagList"
    /\ readResult # 0
    /\ <<"a">> \in builtBefore
    /\ items = <<Item(Array(<< <<"b">> >>))>>
    /\ result = << <<"b">> >>

----------------------------------------------------------------------------
(* The CSS pipeline: the plugins of the PostCSS configuration, run on a    *)
(* stylesheet in the order the configuration lists them.                   *)

MaxNodes == 3

\* The pipeline with the minifier listed first.
PluginsMinifyFirst == <<"cssnano", "postcss-node-sass", "autoprefixer">>

PostcssPlugins == <<"postcss-node-sass", "autoprefixer", "cssnano">>

\* What a node of an SCSS source can be: an @import, a nested rule, a
\* declaration autoprefixer has a prefix for, and any other declaration.
ScssNodes == {"import", "nested", "prefixable", "decl"}

\* syntax: 'postcss-scss': the sources are SCSS, of at most MaxNodes nodes.
Stylesheets ==
    {[lang |-> "scss", nodes |-> n, compressed |-> FALSE, minified |-> FALSE] :
        n \in SeqsUpTo(ScssNodes, MaxNodes)}

\* postcss-node-sass({ outputStyle: 'compressed' }): the imports inlined and
\* the nesting flattened, written as compressed CSS.
Compile(sheet) ==
    [lang |-> "css",
     nodes |-> [i \in 1..Len(sheet.nodes) |->
                   CASE sheet.nodes[i] = "import" -> "decl"
                     [] sheet.nodes[i] = "nested" -> "rule"
                     [] OTHER -> sheet.nodes[i]],
     compressed |-> TRUE,
     minified |-> sheet.minified]

\* autoprefixer: the declarations it has a prefix for get it.
Prefix(sheet) ==
    [sheet EXCEPT !.nodes = [i \in 1..Len(sheet.nodes) |->
                                IF sheet.nodes[i] = "prefixable"
                                THEN "prefixed" ELSE sheet.nodes[i]]]

\* cssnano({ preset: 'default' })
Minify(sheet) == [sheet EXCEPT !.minified = TRUE]

ApplyPlugin(plugin, sheet) ==
    CASE plugin = "postcss-node-sass" -> Compile(sheet)
      [] plugin = "autoprefixer" -> Prefix(sheet)
      [] plugin = "cssnano" -> Minify(sheet)

InitCss ==
    /\ items = <<>>
    /\ NothingCalled
    /\ ConfigLoaded
    /\ NothingCopied
    /\ css \in Stylesheets
    /\ cssRan = <<>>

\* The next plugin of the list runs on what the one before it left.
RunPlugin ==
    /\ css.lang # "none"
    /\ Len(cssRan) < Len(PostcssPlugins)
    /\ LET plugin == PostcssPlugins[Len(cssRan) + 1]
       IN  /\ css' = ApplyPlugin(plugin, css)
           /\ cssRan' = Append(cssRan, plugin)
    /\ UNCHANGED <<items, tagsSet, result, value, textOnly, readResult,
                   dateValue, hostOffset, dateResult, filename, alt,
                   imgResult, builtBefore, called, error, registry,
                   passthrough, inputDir, files, output, built>>

SpecCss == InitCss /\ [][RunPlugin]_vars

\* C11: the stages run in one order: SCSS compilation, then vendor
\* prefixing, then minification. The compiler runs first, the prefixer only
\* on compiled CSS, the minifier only after the prefixer.
C11_FixedStageOrder ==
    [][cssRan' # cssRan =>
          LET plugin == cssRan'[Len(cssRan')]
          IN  /\ plugin = "postcss-node-sass" => cssRan = <<>>
              /\ plugin = "autoprefixer" =>
                    /\ css.lang = "css"
                    /\ cssRan = <<"postcss-node-sass">>
              /\ plugin = "cssnano" =>
                    cssRan = <<"postcss-node-sass", "autoprefixer">>]_vars

\* A stylesheet with an import and a prefixable declaration has been through
\* the three stages.
C11_Witness ==
    /\ cssRan = <<"postcss-node-sass", "autoprefixer", "cssnano">>
    /\ css.lang = "css"
    /\ css.minified
    /\ "prefixed" \in Range(css.nodes)
    /\ "import" \notin Range(css.nodes)

----------------------------------------------------------------------------
(* Passthrough copy: a build copies the files the declared patterns match  *)
(* into the output, as they are.                                           *)

MaxContents == 2

\* Paths are sequences of segments; "**" and "*" are the glob segments.
IsGlob(pattern) == \E i \in 1..Len(pattern) : pattern[i] \in {"**", "*"}

RECURSIVE GlobMatch(_, _)
GlobMatch(pattern, path) ==
    IF pattern = <<>> THEN path = <<>>
    ELSE IF Head(pattern) = "**"
         THEN \/ GlobMatch(Tail(pattern), path)
              \/ path # <<>> /\ GlobMatch(pattern, Tail(path))
         ELSE /\ path # <<>>
              /\ Head(pattern) = "*" \/ Head(pattern) = Head(path)
              /\ GlobMatch(Tail(pattern), Tail(path))

\* A pattern that only globs: a plain path matches nothing but itself.
MatchesGlobOnly(pattern, path) == GlobMatch(pattern, path)

\* A glob matches as a glob; a plain path names a file, or a directory whose
\* files are all copied.
Matches(pattern, path) ==
    IF IsGlob(pattern) THEN GlobMatch(pattern, path)
    ELSE /\ Len(pattern) <= Len(path)
         /\ SubSeq(path, 1, Len(pattern)) = pattern

MatchesAny(patterns, path) ==
    \E i \in 1..Len(patterns) : Matches(patterns[i], path)

\* The path of a copy: the input directory replaced by the output
\* directory, which the configuration leaves at _site.
OutputPath(dir, path) ==
    IF path # <<>> /\ Head(path) = dir THEN <<"_site">> \o Tail(path)
    ELSE <<"_site">> \o path

File(path, content) == [path |-> path, content |-> content]

Copy(dir, file) == File(OutputPath(dir, file.path), file.content)

CopyAll(patterns, dir, tree) ==
    {Copy(dir, f) : f \in {g \in tree : MatchesAny(patterns, g.path)}}

\* Files a source tree may hold: assets at several depths, the manifest, the
\* resume's assets and its page, and a post.
CandidatePaths ==
    { <<"src", "assets", "img", "posts", "improper_lists_cover.png">>,
      <<"src", "assets", "styles", "main.scss">>,
      <<"src", "assets", "favicon.ico">>,
      <<"src", "manifest.json">>,
      <<"src", "resume", "assets", "photo.png">>,
      <<"src", "resume", "index.html">>,
      <<"src", "posts", "2021", "the_elixir_ast.md">> }

\* The tree in which each candidate path is absent (0) or holds a content.
TreeOf(holds) ==
    {File(p, holds[p]) : p \in {q \in CandidatePaths : holds[q] # 0}}

InitCopy ==
    /\ items = <<>>
    /\ NothingCalled
    /\ ConfigLoaded
    /\ PipelineIdle
    /\ \E holds \in [CandidatePaths -> 0..MaxContents] :
          files = TreeOf(holds)
    /\ output = {}
    /\ built = FALSE

\* A build writes the copies of the files the declared patterns match.
BuildCopies ==
    /\ ~built
    /\ built' = TRUE
    /\ output' = CopyAll(passthrough, inputDir, files)
    /\ UNCHANGED <<items, tagsSet, result, value, textOnly, readResult,
                   dateValue, hostOffset, dateResult, filename, alt,
                   imgResult, builtBefore, called, error, registry,
                   passthrough, inputDir, files, css, cssRan>>

SpecCopy == InitCopy /\ [][BuildCopies]_vars

\* The files the three declared patterns are about: any file below
\* src/assets, src/manifest.json, and src/resume/assets with what is below it.
DeclaredPassthrough(path) ==
    \/ Len(path) >= 3 /\ SubSeq(path, 1, 2) = <<"src", "assets">>
    \/ path = <<"src", "manifest.json">>
    \/ Len(path) >= 3 /\ SubSeq(path, 1, 3) = <<"src", "resume", "assets">>

\* C12: the configuration declares exactly the three passthrough patterns,
\* and a build leaves the source files as they were and writes, for every
\* file one of the patterns matches, a copy with the same content.
C12_PassthroughVerbatim ==
    [][(~built /\ built') =>
          /\ passthrough = << <<"src", "assets", "**", "*">>,
                              <<"src", "manifest.json">>,
                              <<"src", "resume", "assets">> >>
          /\ files' = files
          /\ \A f \in files :
                DeclaredPassthrough(f.path) =>
                    /\ File(<<"_site">> \o Tail(f.path), f.content) \in output'
                    /\ \A o \in output' :
                          o.path = <<"_site">> \o Tail(f.path) =>
                              o.content = f.content]_vars

\* A build has copied an asset four levels deep, an asset directly below
\* src/assets and a file of the resume's assets, with different contents,
\* and has not copied the post.
C12_Witness ==
    /\ built
    /\ File(<<"_site", "assets", "img", "posts", "improper_lists_cover.png">>, 1)
          \in output
    /\ File(<<"_site", "assets", "favicon.ico">>, 2) \in output
    /\ File(<<"_site", "resume", "assets", "photo.png">>, 2) \in output
    /\ File(<<"src", "posts", "2021", "the_elixir_ast.md">>, 1) \in files
    /\ \A o \in output : o.path # <<"_site", "posts", "2021", "the_elixir_ast.md">>

----------------------------------------------------------------------------
(* The callback on items whose tags field holds any of the values front    *)
(* matter can give it.                                                     *)

MaxShapeItems == 3

\* tags absent, null, an empty list, a list of strings, an empty string, and
\* a single string in place of a list (tags: elixir).
TagsShapes ==
    { Undefined,
      Null,
      Array(<<>>),
      Array(<< <<"a">> >>),
      Array(<< <<"b">>, <<"p", "o", "s", "t", "s">> >>),
      Str(<<>>),
      Str(<<"e", "l", "i", "x", "i", "r">>),
      Str(<<"p", "o", "s", "t", "s">>) }

AnyShapeItems == {Item(t) : t \in TagsShapes}

InitShapes ==
    /\ items = <<>>
    /\ Idle

DiscoverAnyShape ==
    /\ called = "none"
    /\ Len(items) < MaxShapeItems
    /\ \E item \in AnyShapeItems : items' = Append(items, item)
    /\ UNCHANGED <<tagsSet, result, value, textOnly, readResult, dateValue,
                   hostOffset, dateResult, filename, alt, imgResult,
                   builtBefore, called, error, siteVars>>

NextShapes == DiscoverAnyShape \/ CallTagList

SpecShapes == InitShapes /\ [][NextShapes]_vars

\* C13: whatever the tags field of each item holds, tagList returns a tag
\* sequence and raises no error.
C13_TotalOverShapes ==
    called = "tagList" => error = "none"

----------------------------------------------------------------------------
(* The tag aggregator on rearranged and repeated input.                    *)

\* Every order of the elements of seq.
Rearranged(seq) ==
    LET n == Len(seq)
        orders == {f \in [1..n -> 1..n] : \A i, j \in 1..n : f[i] = f[j] => i = j}
    IN  {[i \in 1..n |-> seq[f[i]]] : f \in orders}

\* seq with one of its elements once more, at the end.
Repeated(seq) == {Append(seq, seq[i]) : i \in 1..Len(seq)}

\* The collection with the tag list of item i replaced.
WithTags(coll, i, tags) ==
    [coll EXCEPT ![i] = Item(Array(tags))]

ListedItems(coll) ==
    {i \in 1..Len(coll) : coll[i].data.tags.type = "array"}

\* The collections that differ from coll in the order of the tags of one
\* item, or by one tag of one item being repeated.
TagsRearranged(coll) ==
    UNION {{WithTags(coll, i, t) : t \in Rearranged(TagsOf(coll, i))} :
              i \in ListedItems(coll)}

TagsRepeated(coll) ==
    UNION {{WithTags(coll, i, t) : t \in Repeated(TagsOf(coll, i))} :
              i \in ListedItems(coll)}

ResultOn(coll) == TagList(<<>>, coll).val

\* C14: the result is the same for the items in any other order, for the
\* tags of an item in any other order, and with an item or a tag repeated.
C14_OrderAndMultiplicity ==
    called = "tagList" =>
        /\ \A coll \in Rearranged(items) : ResultOn(coll) = result
        /\ \A coll \in Repeated(items) : ResultOn(coll) = result
        /\ \A coll \in TagsRearranged(items) : ResultOn(coll) = result
        /\ \A coll \in TagsRepeated(items) : ResultOn(coll) = result

\* A call on two different items whose tags were met in an order that is
\* not the sorted one and where the other order of the items fills the Set
\* differently.
C14_Witness ==
    /\ called = "tagList"
    /\ Len(items) = 2
    /\ TagsOf(items, 1) = << <<"c">>, <<"a">> >>
    /\ TagsOf(items, 2) = << <<"b">>, <<"c">> >>
    /\ tagsSet = << <<"c">>, <<"a">>, <<"b">> >>
    /\ TagList(<<>>, <<items[2], items[1]>>).set = << <<"b">>, <<"c">>, <<"a">> >>
    /\ result = << <<"a">>, <<"b">>, <<"c">> >>

----------------------------------------------------------------------------
(* The tag aggregator's input after the call.                              *)

\* C15: tagList leaves its input unchanged: a call leaves every item in its
\* place with the same tags in the same order, "posts" and "all" included.
C15_InputUnchanged ==
    [][called' = "tagList" /\ called = "none" =>
          /\ Len(items') = Len(items)
          /\ \A i \in 1..Len(items) :
                /\ items'[i].data.tags.type = items[i].data.tags.type
                /\ TagsOf(items', i) = TagsOf(items, i)]_vars

\* A call on an item that carries nothing but the two reserved tags: the
\* result is empty and the item still carries both.
C15_Witness ==
    /\ called = "tagList"
    /\ Len(items) = 1
    /\ TagsOf(items, 1) = <<All, Posts>>
    /\ result = <<>>

----------------------------------------------------------------------------
(* The engine loading the configuration at startup and calling into the    *)
(* registered functions afterwards.                                        *)

InitLoad ==
    /\ items = <<>>
    /\ NothingCalled
    /\ NotLoaded
    /\ SiteIdle

\* module.exports(eleventyConfig): every call of the function body, and the
\* object it returns. The functions are passed on, none is called.
LoadConfig ==
    /\ NotLoaded
    /\ registry' = RegistryAfter(ConfigCalls)
    /\ passthrough' = PassthroughAfter(ConfigCalls)
    /\ inputDir' = ReturnedInputDir
    /\ UNCHANGED <<items, tagsSet, result, value, textOnly, readResult,
                   dateValue, hostOffset, dateResult, filename, alt,
                   imgResult, builtBefore, called, error, files, output,
                   built, css, cssRan>>

NextLoad == LoadConfig \/ NextCalls

SpecLoad == InitLoad /\ [][NextLoad]_vars

\* The names the configuration is to register, each with its kind.
ExpectedRegistrations ==
    { [kind |-> "addFilter", name |-> "readTime"],
      [kind |-> "addFilter", name |-> "formatDate"],
      [kind |-> "addCollection", name |-> "tagList"],
      [kind |-> "addLiquidShortcode", name |-> "asset_img"],
      [kind |-> "addLiquidShortcode", name |-> "cover_img"],
      [kind |-> "addLiquidFilter", name |-> "dateToRfc3339"] }

TimesRegistered(reg, name) ==
    Cardinality({i \in 1..Len(reg) : reg[i].name = name})

\* What the registered functions read and write.
callVars == <<items, tagsSet, result, value, textOnly, readResult, dateValue,
              hostOffset, dateResult, filename, alt, imgResult, called, error>>

\* C16: loading the configuration registers exactly one function under each
\* of the six names, with its kind, sets the input directory to "src" and
\* calls none of the functions; a function runs only in a later step, when
\* the engine calls it.
C16_LoadRegistersOnly ==
    [][ /\ (NotLoaded /\ ~NotLoaded') =>
              /\ Range(registry') = ExpectedRegistrations
              /\ \A r \in ExpectedRegistrations :
                    TimesRegistered(registry', r.name) = 1
              /\ inputDir' = "src"
              /\ callVars' = callVars
        /\ callVars' # callVars => ~NotLoaded
      ]_vars

\* After the load the engine has called a shortcode and then the collection
\* callback.
C16_Witness ==
    /\ Len(registry) = 6
    /\ inputDir = "src"
    /\ imgResult # NoString
    /\ called = "tagList"
    /\ result = << <<"a">> >>

----------------------------------------------------------------------------
(* The filter on every short string of angle brackets and text.            *)

MaxStrip == 6

BracketTexts == SeqsUpTo({"<", ">", "x"}, MaxStrip)

InitStrip ==
    /\ items = <<>>
    /\ tagsSet = <<>>
    /\ result = <<>>
    /\ value \in {Str(t) : t \in BracketTexts}
    /\ textOnly = NoString
    /\ readResult = 0
    /\ dateValue = Undefined
    /\ hostOffset = 0
    /\ dateResult = NoString
    /\ filename = NoString
    /\ alt = NoString
    /\ imgResult = NoString
    /\ builtBefore = {}
    /\ called = "none"
    /\ error = "none"
    /\ ConfigLoaded
    /\ SiteIdle

SpecStrip == InitStrip /\ [][CallReadTime]_vars

\* s holds a "<", then one or more characters other than ">", then a ">".
HasTag(s) ==
    \E i, j \in 1..Len(s) :
        /\ i + 1 < j
        /\ s[i] = "<"
        /\ s[j] = ">"
        /\ \A k \in (i + 1)..(j - 1) : s[k] # ">"

\* C17: stripping the stripped text removes nothing more, and the stripped
\* text holds no "<" followed by one or more non-">" characters and a ">".
C17_StripIdempotent ==
    called = "readTime" =>
        /\ StripTags(textOnly) = textOnly
        /\ ~HasTag(textOnly)

\* A call whose stripped text still holds angle brackets next to the place
\* a tag was cut out of.
C17_Witness ==
    /\ called = "readTime"
    /\ value.val = <<"<", ">", "<", "x", ">", ">">>
    /\ textOnly = <<"<", ">", ">">>

----------------------------------------------------------------------------
(* The filter on a text and on the same text with running text after it.   *)

\* The lengths of the running text put after a text: one character, as much
\* as the markup, and a minute of reading.
TailLengths == {1, MaxMarkup, ReadingSpeedPerMin}

ReadTimeWithTail(v, n) == ReadTime(Str(v.val \o Plain(n))).val

\* C18: running text after a text never lowers the reading time: for a text
\* s and a text t without "<" and ">", readTime of s followed by t is at
\* least readTime of s.
C18_MonotoneInPlainText ==
    called = "readTime" =>
        \A n \in TailLengths : ReadTimeWithTail(value, n) >= readResult

\* A call on a tag followed by text one character short of two minutes:
\* one more character makes it two.
C18_Witness ==
    /\ called = "readTime"
    /\ Len(textOnly) = 2 * ReadingSpeedPerMin - 1
    /\ SubSeq(value.val, 1, 3) = <<"<", "x", ">">>
    /\ readResult = 1
    /\ ReadTimeWithTail(value, 1) = 2

----------------------------------------------------------------------------
(* The shortcodes' markup under the reading-time filter.                   *)

NoGt(s) == \A i \in 1..Len(s) : s[i] # ">"

\* C19: for a file name and an alt text without ">", the filter's tag
\* stripping reduces what asset_img and cover_img return to the empty
\* string, so the markup counts 0 characters.
C19_ShortcodeCountsNothing ==
    (called \in {"asset_img", "cover_img"} /\ NoGt(filename) /\ NoGt(alt)) =>
        /\ StripTags(imgResult) = <<>>
        /\ Len(ReadTime(Str(imgResult)).textOnly) = 0

\* A cover whose alt text opens a tag of its own and holds no ">".
C19_Witness ==
    /\ called = "cover_img"
    /\ filename = <<"a", "\"">>
    /\ alt = <<"<", "a">>
    /\ StripTags(imgResult) = <<>>

----------------------------------------------------------------------------
(* The date filter on hosts in different time zones.                       *)

\* C20: for a date-only string the text formatDate returns is the same on
\* a host at any other UTC offset.
C20_SameTextInEveryZone ==
    (called = "formatDate" /\ dateValue.type = "string"
        /\ IsDateOnly(dateValue.val)) =>
        \A offset \in HostOffsets :
            FormatDate(dateValue, offset).val = dateResult

----------------------------------------------------------------------------
(* The tag aggregator on tags that differ in letter case or in the spaces  *)
(* around them.                                                            *)

MaxVariantTags == 3

\* The reserved tags, their variants in case and in surrounding spaces, and
\* tags that begin with an uppercase or a lowercase letter.
VariantTags ==
    { <<"p", "o", "s", "t", "s">>,
      <<"a", "l", "l">>,
      <<"P", "o", "s", "t", "s">>,
      <<"a", "l", "l", " ">>,
      <<" ", "p", "o", "s", "t", "s">>,
      <<"E", "l", "i", "x", "i", "r">>,
      <<"e", "l", "i", "x", "i", "r">>,
      <<"Z", "e", "d">>,
      <<"a", "s", "t">> }

\* Items that carry one tag or more of these, up to MaxTags.
VariantItems ==
    {Item(Array(t)) : t \in SeqsUpTo(VariantTags, MaxTags) \ {<<>>}}

InitVariants ==
    /\ items = <<>>
    /\ Idle

DiscoverVariant ==
    /\ called = "none"
    /\ \E item \in VariantItems :
          /\ TotalTags(items) + NumTags(item) <= MaxVariantTags
          /\ items' = Append(items, item)
    /\ UNCHANGED <<tagsSet, result, value, textOnly, readResult, dateValue,
                   hostOffset, dateResult, filename, alt, imgResult,
                   builtBefore, called, error, siteVars>>

SpecVariants == InitVariants /\ [][DiscoverVariant \/ CallTagList]_vars

\* C21: tagList excludes the tags equal to "posts" or "all" and no other: a
\* tag that differs from them in letter case or by spaces around it, such
\* as "Posts" or "all ", is in the result.
C21_ExactMatchOnly ==
    called = "tagList" =>
        /\ Posts \notin Range(result)
        /\ All \notin Range(result)
        /\ \A tag \in CarriedTags(items) :
              (tag # Posts /\ tag # All) => tag \in Range(result)
        /\ <<"P", "o", "s", "t", "s">> \in CarriedTags(items)
              => <<"P", "o", "s", "t", "s">> \in Range(result)
        /\ <<"a", "l", "l", " ">> \in CarriedTags(items)
              => <<"a", "l", "l", " ">> \in Range(result)

\* A call on one item that carries "posts" and "Posts" and one that carries
\* "all ": the two variants are the result.
C21_Witness ==
    /\ called = "tagList"
    /\ Len(items) = 2
    /\ TagsOf(items, 1) = <<Posts, <<"P", "o", "s", "t", "s">> >>
    /\ TagsOf(items, 2) = << <<"a", "l", "l", " ">> >>
    /\ result = << <<"P", "o", "s", "t", "s">>, <<"a", "l", "l", " ">> >>

----------------------------------------------------------------------------
(* The order of the result on tags of both letter cases.                   *)

BeginsUpper(tag) == tag # <<>> /\ CharCode(tag[1]) \in 65..90

BeginsLower(tag) == tag # <<>> /\ CharCode(tag[1]) \in 97..122

\* x comes before y by the code of the first character in which they
\* differ, or by being the beginning of y.
CodeOrderBefore(x, y) ==
    \/ \E k \in 1..Len(x) :
          /\ k <= Len(y)
          /\ SubSeq(x, 1, k - 1) = SubSeq(y, 1, k - 1)
          /\ CharCode(x[k]) < CharCode(y[k])
    \/ Len(x) < Len(y) /\ SubSeq(y, 1, Len(x)) = x

\* C22: the result ascends by character code, case-sensitively: every tag
\* that begins with an uppercase letter stands before every tag that begins
\* with a lowercase letter, and two tags that differ only in letter case
\* are both in the result, as two entries.
C22_CaseSensitiveOrder ==
    called = "tagList" =>
        /\ \A i, j \in 1..Len(result) :
              (BeginsUpper(result[i]) /\ BeginsLower(result[j])) => i < j
        /\ \A i, j \in 1..Len(result) :
              i < j => CodeOrderBefore(result[i], result[j])
        /\ \A x, y \in CarriedTags(items) \ {Posts, All} :
              (x # y /\ ToLowerCase(x) = ToLowerCase(y)) =>
                  \E i, j \in 1..Len(result) :
                      i # j /\ result[i] = x /\ result[j] = y

\* A call that met "ast", then "elixir" and "Elixir": the result has
\* "Elixir" before "ast" and both spellings of elixir.
C22_Witness ==
    /\ called = "tagList"
    /\ tagsSet = << <<"a", "s", "t">>, <<"e", "l", "i", "x", "i", "r">>,
                   <<"E", "l", "i", "x", "i", "r">> >>
    /\ result = << <<"E", "l", "i", "x", "i", "r">>, <<"a", "s", "t">>,
                  <<"e", "l", "i", "x", "i", "r">> >>

====
